---- MODULE Spec2Model ----
(***************************************************************************)
(* The movie catalogue API of app.py: four tables (movies, links, ratings, *)
(* tags) in one SQLite store, and the flask_restful handlers that read and *)
(* write them, each inside its own SQLAlchemy session (get_db).            *)
(*                                                                         *)
(* A handler is a sequence of steps; one step is one round trip to the     *)
(* store (a SELECT, or the flush and COMMIT that db.commit() issues).      *)
(* Under Spec one request runs at a time, so the steps of a handler follow *)
(* each other without interruption; under SpecConc the steps of the        *)
(* requests of several threads interleave.                                 *)
(*                                                                         *)
(* The store is SQLite as configure_db sets it up: PRIMARY KEY and UNIQUE  *)
(* are enforced by the store (IntegrityError at the INSERT), FOREIGN KEY   *)
(* is not (no PRAGMA foreign_keys=ON is issued), and a generated id is the *)
(* rowid, max(id) + 1.  A SELECT reads the committed rows; the statements  *)
(* of one flush and their COMMIT are one atomic write.                     *)
(***************************************************************************)
EXTENDS Integers, Sequences, FiniteSets, TLC

\* ---------------------------------------------------------------- bounds
MaxMovie == 2
MaxLinks == 2
MaxRatings == 2
MaxTags == 1
MaxRequests == 3
NumThreads == 2

MovieIds == 1..MaxMovie
RatingIds == 1..MaxRatings
TagIds == 1..MaxTags
Procs == 1..NumThreads

VARIABLES movies, links, ratings, tags, req, threads, issued, sessions, app, zad1

store == <<movies, links, ratings, tags>>
vars == <<movies, links, ratings, tags, req, threads, issued, sessions, app, zad1>>

\* ------------------------------------------------------- request bodies
\* The field values the requests carry.  Reals are in tenths.
MovieFields == {[title |-> "A", genres |-> "Drama"], [title |-> "B", genres |-> "Comedy"]}
LinksFields == {[imdbId |-> "7", tmdbId |-> "y"], [imdbId |-> "8", tmdbId |-> "w"]}
RatingsFields == {[userId |-> 1, rating |-> 45, timestamp |-> 100],
                  [userId |-> 2, rating |-> 30, timestamp |-> 200]}
TagsFields == {[userId |-> 1, tag |-> "fun", timestamp |-> 100],
               [userId |-> 2, tag |-> "sad", timestamp |-> 200]}

\* A JSON value is an integer, a real or a string.
JInt(n) == [int |-> n]
JReal(t) == [real |-> t]
JStr(s) == [str |-> s]

\* The integers a decimal string of the bodies can spell.
Digits == 0..9

\* type=int: int(value); <<>> stands for the ValueError.
int_(v) ==
    IF "int" \in DOMAIN v THEN <<v.int>>
    ELSE IF "real" \in DOMAIN v THEN <<v.real \div 10>>
    ELSE IF \E n \in Digits : ToString(n) = v.str
         THEN <<CHOOSE n \in Digits : ToString(n) = v.str>>
         ELSE <<>>

\* type=str: str(value)
str_(v) ==
    IF "str" \in DOMAIN v THEN v.str
    ELSE IF "int" \in DOMAIN v THEN ToString(v.int)
    ELSE ToString(v.real \div 10) \o "." \o ToString(v.real % 10)

\* type=float: float(value)
float_(v) ==
    IF "real" \in DOMAIN v THEN <<v.real>>
    ELSE IF "int" \in DOMAIN v THEN <<10 * v.int>>
    ELSE IF \E n \in Digits : ToString(n) = v.str
         THEN <<10 * (CHOOSE n \in Digits : ToString(n) = v.str)>>
         ELSE <<>>

\* parse_args(): <<args>>, or <<>> when a required field is missing or a value
\* does not convert.
movie_parser(body) ==
    IF /\ {"movieId", "title", "genres"} \subseteq DOMAIN body
       /\ int_(body.movieId) # <<>>
    THEN <<[movieId |-> int_(body.movieId)[1], title |-> str_(body.title),
            genres |-> str_(body.genres)]>>
    ELSE <<>>
links_parser(body) ==
    IF /\ {"movieId", "imdbId", "tmdbId"} \subseteq DOMAIN body
       /\ int_(body.movieId) # <<>>
    THEN <<[movieId |-> int_(body.movieId)[1], imdbId |-> str_(body.imdbId),
            tmdbId |-> str_(body.tmdbId)]>>
    ELSE <<>>
ratings_parser(body) ==
    IF /\ {"userId", "movieId", "rating", "timestamp"} \subseteq DOMAIN body
       /\ int_(body.userId) # <<>>
       /\ int_(body.movieId) # <<>>
       /\ float_(body.rating) # <<>>
       /\ int_(body.timestamp) # <<>>
    THEN <<[userId |-> int_(body.userId)[1], movieId |-> int_(body.movieId)[1],
            rating |-> float_(body.rating)[1], timestamp |-> int_(body.timestamp)[1]]>>
    ELSE <<>>
tags_parser(body) ==
    IF /\ {"userId", "movieId", "tag", "timestamp"} \subseteq DOMAIN body
       /\ int_(body.userId) # <<>>
       /\ int_(body.movieId) # <<>>
       /\ int_(body.timestamp) # <<>>
    THEN <<[userId |-> int_(body.userId)[1], movieId |-> int_(body.movieId)[1],
            tag |-> str_(body.tag), timestamp |-> int_(body.timestamp)[1]]>>
    ELSE <<>>

\* The JSON bodies of the requests.  Json: every field has its declared type.
\* Missing: a required field is absent.  Other: a value of another type, one
\* that does not convert and ones that do.
MovieJson ==
    {[movieId |-> JInt(m), title |-> JStr(f.title), genres |-> JStr(f.genres)] :
        m \in MovieIds, f \in MovieFields}
MovieMissing == {[title |-> JStr("A"), genres |-> JStr("Drama")]}
MovieOther ==
    {[movieId |-> JStr("abc"), title |-> JStr("A"), genres |-> JStr("Drama")],
     [movieId |-> JStr("1"), title |-> JStr("A"), genres |-> JStr("Drama")]}

LinksJson ==
    {[movieId |-> JInt(m), imdbId |-> JStr(f.imdbId), tmdbId |-> JStr(f.tmdbId)] :
        m \in MovieIds, f \in LinksFields}
LinksMissing == {[movieId |-> JInt(1), tmdbId |-> JStr("y")]}
LinksOther ==
    {[movieId |-> JStr("abc"), imdbId |-> JStr("7"), tmdbId |-> JStr("y")],
     [movieId |-> JInt(1), imdbId |-> JInt(7), tmdbId |-> JStr("y")]}

RatingsJson ==
    {[userId |-> JInt(f.userId), movieId |-> JInt(m), rating |-> JReal(f.rating),
      timestamp |-> JInt(f.timestamp)] : m \in MovieIds, f \in RatingsFields}
RatingsMissing == {[userId |-> JInt(1), movieId |-> JInt(1), timestamp |-> JInt(100)]}
RatingsOther ==
    {[userId |-> JInt(1), movieId |-> JInt(1), rating |-> JStr("abc"),
      timestamp |-> JInt(100)],
     [userId |-> JReal(25), movieId |-> JInt(1), rating |-> JInt(3),
      timestamp |-> JInt(200)]}

TagsJson ==
    {[userId |-> JInt(f.userId), movieId |-> JInt(m), tag |-> JStr(f.tag),
      timestamp |-> JInt(f.timestamp)] : m \in MovieIds, f \in TagsFields}
TagsMissing == {[userId |-> JInt(1), movieId |-> JInt(1), timestamp |-> JInt(100)]}
TagsOther ==
    {[userId |-> JInt(1), movieId |-> JInt(1), tag |-> JStr("fun"),
      timestamp |-> JStr("abc")],
     [userId |-> JInt(1), movieId |-> JStr("1"), tag |-> JStr("fun"),
      timestamp |-> JInt(100)]}

\* ------------------------------------------------------------ row -> dict
Movie_to_dict(r) == [movieId |-> r.movieId, title |-> r.title, genres |-> r.genres]
Links_to_dict(r) == [movieId |-> r.movieId, imdbId |-> r.imdbId, tmdbId |-> r.tmdbId]
Ratings_to_dict(r) ==
    [userId |-> r.userId, movieId |-> r.movieId, rating |-> r.rating, timestamp |-> r.timestamp]
Tags_to_dict(r) ==
    [userId |-> r.userId, movieId |-> r.movieId, tag |-> r.tag, timestamp |-> r.timestamp]

\* The rows a handler builds from its parsed arguments.
NewMovie(a) == [movieId |-> a.movieId, title |-> a.title, genres |-> a.genres]
NewLinks(id, a) == [id |-> id, movieId |-> a.movieId, imdbId |-> a.imdbId, tmdbId |-> a.tmdbId]
\* A rating row that loses its timestamp.
NewRatings_no_timestamp(id, a) ==
    [id |-> id, userId |-> a.userId, movieId |-> a.movieId, rating |-> a.rating, timestamp |-> 0]

NewRatings(id, a) ==
    [id |-> id, userId |-> a.userId, movieId |-> a.movieId, rating |-> a.rating,
     timestamp |-> a.timestamp]
NewTags(id, a) ==
    [id |-> id, userId |-> a.userId, movieId |-> a.movieId, tag |-> a.tag,
     timestamp |-> a.timestamp]

\* ------------------------------------------------------------- the store
\* The rowid SQLite gives an INTEGER PRIMARY KEY row inserted without an id.
\* An id generator that hands out the smallest id in use.
GeneratedId_smallest(rows) ==
    IF rows = {} THEN 1
    ELSE CHOOSE i \in {r.id : r \in rows} : \A r \in rows : i <= r.id

GeneratedId(rows) ==
    IF rows = {} THEN 1
    ELSE (CHOOSE i \in {r.id : r \in rows} : \A r \in rows : r.id <= i) + 1

\* query(...).all(): the rows in key order.
RECURSIVE AllById(_)
AllById(rows) ==
    IF rows = {} THEN <<>>
    ELSE LET r == CHOOSE x \in rows : \A y \in rows : x.id <= y.id
         IN  <<r>> \o AllById(rows \ {r})

RECURSIVE AllMovies(_)
AllMovies(rows) ==
    IF rows = {} THEN <<>>
    ELSE LET r == CHOOSE x \in rows : \A y \in rows : x.movieId <= y.movieId
         IN  <<r>> \o AllMovies(rows \ {r})

\* query(Movie).filter(Movie.movieId == m)
MovieRows(m) == {r \in movies : r.movieId = m}
\* query(Links).filter(Links.movieId == m)
LinksRows(m) == {r \in links : r.movieId = m}
\* query(Ratings).filter(Ratings.id == i), query(Tags).filter(Tags.id == i)
RatingsRows(i) == {r \in ratings : r.id = i}
TagsRows(i) == {r \in tags : r.id = i}

\* movies without its primary key.
NoPrimaryKey(m) == TRUE

\* PRIMARY KEY of movies: the INSERT of a second row with this movieId fails.
MoviePrimaryKeyFree(m) == \A r \in movies : r.movieId # m
\* UNIQUE(movieId) of links: the INSERT of a second row with this movieId fails.
LinksUniqueFree(m) == \A r \in links : r.movieId # m

\* ---------------------------------------------------------- the requests
Message(text) == <<[message |-> text]>>

Idle ==
    [pc |-> "idle", op |-> "none", key |-> 0, body |-> <<>>, args |-> <<>>, db |-> {},
     obj |-> <<>>, cascade |-> {}, status |-> 0, data |-> <<>>]

\* One session that every request is handed.
SessionLocal_shared == CHOOSE i \in Procs : \A j \in Procs : i <= j

\* SessionLocal(): get_db makes a new session for the request that calls it.
SessionLocal == CHOOSE i \in Procs : i \notin sessions /\ \A j \in 1..(i - 1) : j \in sessions

\* A request is taken by a free thread of the server.  With several threads the
\* number of requests of a run is bounded by MaxRequests.
Ready(p) == req[p].pc = "idle" /\ p <= threads /\ (threads > 1 => issued < MaxRequests)
Count ==
    /\ threads' = threads
    /\ issued' = IF threads > 1 THEN issued + 1 ELSE issued
    /\ UNCHANGED <<app, zad1>>

\* A return that leaves the session open.
Return_leak(p, status, data) ==
    /\ req' = [req EXCEPT ![p].pc = "done", ![p].status = status, ![p].data = data]
    /\ UNCHANGED <<threads, issued, sessions, app, zad1>>

\* The handler of thread p returns (status, data); the finally of get_db closes
\* the session.
Return(p, status, data) ==
    /\ req' = [req EXCEPT ![p].pc = "done", ![p].status = status, ![p].data = data]
    /\ sessions' = sessions \ req[p].db
    /\ UNCHANGED <<threads, issued, app, zad1>>

\* The handler of thread p goes on to its step pc.
Goto(p, pc) == req' = [req EXCEPT ![p].pc = pc] /\ UNCHANGED <<threads, issued, sessions, app, zad1>>

\* Thread p enters handler op and answers at once.
Answer(p, op, key, body, args, status, data) ==
    /\ req' = [req EXCEPT ![p] = [pc |-> "done", op |-> op, key |-> key, body |-> body,
                                  args |-> args, db |-> {SessionLocal}, obj |-> <<>>,
                                  cascade |-> {}, status |-> status, data |-> data]]
    /\ UNCHANGED sessions
    /\ Count

\* Thread p enters handler op and goes on to step pc holding the object obj.
Proceed(p, op, key, body, args, pc, obj) ==
    /\ req' = [req EXCEPT ![p] = [pc |-> pc, op |-> op, key |-> key, body |-> body,
                                  args |-> args, db |-> {SessionLocal}, obj |-> obj,
                                  cascade |-> {}, status |-> 0, data |-> <<>>]]
    /\ sessions' = sessions \cup {SessionLocal}
    /\ Count

\* parse_args() aborts the request with 400 before get_db is called.
abort(p, op, key, body) ==
    /\ req' = [req EXCEPT ![p] = [pc |-> "done", op |-> op, key |-> key, body |-> body,
                                  args |-> <<>>, db |-> {}, obj |-> <<>>, cascade |-> {},
                                  status |-> 400, data |-> Message("validation")]]
    /\ UNCHANGED sessions
    /\ Count

At(p, op, pc) == req[p].op = op /\ req[p].pc = pc

\* The response of thread p is sent and its session's objects are dropped; the
\* thread is free for the next request.
Respond(p) ==
    /\ req[p].pc = "done"
    /\ req' = [req EXCEPT ![p] = Idle]
    /\ UNCHANGED <<store, threads, issued, sessions, app, zad1>>

\* An exception no handler catches: flask answers 500.
Unhandled(p, name) == Return(p, 500, Message(name))

\* ---------------------------------------------------------------- movies
MoviesList_get(p) ==
    /\ Ready(p)
    /\ Answer(p, "MoviesList.get", 0, <<>>, <<>>, 200,
              [i \in 1..Cardinality(movies) |-> Movie_to_dict(AllMovies(movies)[i])])
    /\ UNCHANGED store

\* The post without its existence check.
MoviesList_post_unchecked(p, body) ==
    /\ Ready(p)
    /\ LET parsed == movie_parser(body) IN
       IF parsed = <<>>
       THEN abort(p, "MoviesList.post", 0, <<body>>)
       ELSE LET args == parsed[1] IN
            Proceed(p, "MoviesList.post", 0, <<body>>, <<args>>, "commit", <<NewMovie(args)>>)
    /\ UNCHANGED store

MoviesList_post(p, body) ==
    /\ Ready(p)
    /\ LET parsed == movie_parser(body) IN
       IF parsed = <<>>
       THEN abort(p, "MoviesList.post", 0, <<body>>)
       ELSE LET args == parsed[1] IN
            IF MovieRows(args.movieId) # {}
            THEN Answer(p, "MoviesList.post", 0, <<body>>, <<args>>, 409, Message("exists"))
            ELSE Proceed(p, "MoviesList.post", 0, <<body>>, <<args>>, "commit", <<NewMovie(args)>>)
    /\ UNCHANGED store

\* db.add(new_movie); db.commit()
MoviesList_post_commit(p) ==
    /\ At(p, "MoviesList.post", "commit")
    /\ LET row == req[p].obj[1] IN
       IF MoviePrimaryKeyFree(row.movieId)
       THEN /\ movies' = movies \cup {row}
            /\ Goto(p, "refresh")
       ELSE /\ Unhandled(p, "IntegrityError")
            /\ UNCHANGED movies
    /\ UNCHANGED <<links, ratings, tags>>

\* new_movie.to_dict(): the attributes expired by the commit are read again.
Movie_refresh(p, op, status) ==
    /\ At(p, op, "refresh")
    /\ LET found == MovieRows(req[p].obj[1].movieId) IN
       IF found # {}
       THEN Return(p, status, <<Movie_to_dict(CHOOSE r \in found : TRUE)>>)
       ELSE Unhandled(p, "ObjectDeletedError")
    /\ UNCHANGED store

MoviesList_post_refresh(p) == Movie_refresh(p, "MoviesList.post", 201)

\* What MovieItem.get answers for this key: <<status, data>>.
MovieItem_get_answer(movie_id) ==
    LET found == MovieRows(movie_id) IN
    IF found # {}
    THEN <<200, <<Movie_to_dict(CHOOSE r \in found : TRUE)>>>>
    ELSE <<404, Message("not found")>>

MovieItem_get(p, movie_id) ==
    /\ Ready(p)
    /\ Answer(p, "MovieItem.get", movie_id, <<>>, <<>>, MovieItem_get_answer(movie_id)[1],
              MovieItem_get_answer(movie_id)[2])
    /\ UNCHANGED store

MovieItem_put(p, movie_id, body) ==
    /\ Ready(p)
    /\ LET parsed == movie_parser(body) IN
       IF parsed = <<>>
       THEN abort(p, "MovieItem.put", movie_id, <<body>>)
       ELSE LET args == parsed[1] IN
            LET found == MovieRows(movie_id) IN
            IF found # {}
            THEN Proceed(p, "MovieItem.put", movie_id, <<body>>, <<args>>, "commit",
                         <<CHOOSE r \in found : TRUE>>)
            ELSE Answer(p, "MovieItem.put", movie_id, <<body>>, <<args>>, 404, Message("not found"))
    /\ UNCHANGED store

\* The UPDATE of a flush sets the columns whose value differs from the loaded
\* one, in the row with the loaded primary key.
\* An update that takes the movieId of the body.
MovieUpdate_rekey(loaded, args, r) ==
    [movieId |-> args.movieId,
     title   |-> IF args.title # loaded.title THEN args.title ELSE r.title,
     genres  |-> IF args.genres # loaded.genres THEN args.genres ELSE r.genres]

MovieUpdate(loaded, args, r) ==
    [movieId |-> r.movieId,
     title   |-> IF args.title # loaded.title THEN args.title ELSE r.title,
     genres  |-> IF args.genres # loaded.genres THEN args.genres ELSE r.genres]

MovieDirty(loaded, args) == args.title # loaded.title \/ args.genres # loaded.genres

\* A commit whose UPDATE has no WHERE clause.
MovieItem_put_commit_all(p) ==
    /\ At(p, "MovieItem.put", "commit")
    /\ LET loaded == req[p].obj[1]
           args == req[p].args[1]
       IN  /\ movies' = {MovieUpdate(loaded, args, r) : r \in movies}
           /\ Goto(p, "refresh")
    /\ UNCHANGED <<links, ratings, tags>>

MovieItem_put_commit(p) ==
    /\ At(p, "MovieItem.put", "commit")
    /\ LET loaded == req[p].obj[1]
           args == req[p].args[1]
           hit == MovieRows(loaded.movieId)
       IN  IF MovieDirty(loaded, args) /\ hit = {}
           THEN /\ Unhandled(p, "StaleDataError")
                /\ UNCHANGED movies
           ELSE /\ movies' = IF MovieDirty(loaded, args)
                             THEN (movies \ hit) \cup {MovieUpdate(loaded, args, r) : r \in hit}
                             ELSE movies
                /\ Goto(p, "refresh")
    /\ UNCHANGED <<links, ratings, tags>>

MovieItem_put_refresh(p) == Movie_refresh(p, "MovieItem.put", 200)

MovieItem_delete(p, movie_id) ==
    /\ Ready(p)
    /\ LET found == MovieRows(movie_id) IN
       IF found # {}
       THEN Proceed(p, "MovieItem.delete", movie_id, <<>>, <<>>, "cascade",
                    <<CHOOSE r \in found : TRUE>>)
       ELSE Answer(p, "MovieItem.delete", movie_id, <<>>, <<>>, 404, Message("not found"))
    /\ UNCHANGED store

\* relationship(..., cascade="all, delete-orphan"): db.delete(movie) loads the
\* movie's links, ratings and tags and marks them deleted.  links is
\* uselist=False: one row is loaded.
Movie_links(m) ==
    IF LinksRows(m) = {} THEN {}
    ELSE {<<"links", (CHOOSE r \in LinksRows(m) : \A o \in LinksRows(m) : r.id <= o.id).id>>}
\* A movie whose ratings relationship does not cascade.
Movie_ratings_no_cascade(m) == {}

Movie_ratings(m) == {<<"ratings", r.id>> : r \in {x \in ratings : x.movieId = m}}
Movie_tags(m) == {<<"tags", r.id>> : r \in {x \in tags : x.movieId = m}}

MovieItem_delete_cascade(p) ==
    /\ At(p, "MovieItem.delete", "cascade")
    /\ LET m == req[p].obj[1].movieId IN
       /\ req' = [req EXCEPT ![p].pc = "commit",
                             ![p].cascade = Movie_links(m) \cup Movie_ratings(m) \cup Movie_tags(m)]
       /\ UNCHANGED <<threads, issued, sessions, app, zad1>>
    /\ UNCHANGED store

\* The flush deletes each marked row by its primary key, then the movie.
MovieItem_delete_commit(p) ==
    /\ At(p, "MovieItem.delete", "commit")
    /\ LET marked == req[p].cascade IN
       /\ links' = {r \in links : <<"links", r.id>> \notin marked}
       /\ ratings' = {r \in ratings : <<"ratings", r.id>> \notin marked}
       /\ tags' = {r \in tags : <<"tags", r.id>> \notin marked}
       /\ movies' = movies \ MovieRows(req[p].obj[1].movieId)
    /\ Return(p, 204, Message("deleted"))

\* ----------------------------------------------------------------- links
\* The ids of the model's rows stay within MaxLinks.
LinksRoom ==
    GeneratedId(links) + Cardinality({q \in Procs : At(q, "LinksList.post", "commit")})
        <= MaxLinks

LinksList_get(p) ==
    /\ Ready(p)
    /\ Answer(p, "LinksList.get", 0, <<>>, <<>>, 200,
              [i \in 1..Cardinality(links) |-> Links_to_dict(AllById(links)[i])])
    /\ UNCHANGED store

LinksList_post(p, body) ==
    /\ Ready(p)
    /\ LET parsed == links_parser(body) IN
       IF parsed = <<>>
       THEN abort(p, "LinksList.post", 0, <<body>>)
       ELSE LET args == parsed[1] IN
            IF LinksRows(args.movieId) # {}
            THEN Answer(p, "LinksList.post", 0, <<body>>, <<args>>, 409, Message("exists"))
            ELSE IF MovieRows(args.movieId) = {}
            THEN Answer(p, "LinksList.post", 0, <<body>>, <<args>>, 400, Message("Foreign Key Error"))
            ELSE LinksRoom /\ Proceed(p, "LinksList.post", 0, <<body>>, <<args>>, "commit", <<>>)
    /\ UNCHANGED store

\* db.add(new_link); db.commit()
\* A commit that keeps the row the store rejected.
LinksList_post_commit_partial(p) ==
    /\ At(p, "LinksList.post", "commit")
    /\ LET row == NewLinks(GeneratedId(links), req[p].args[1]) IN
       /\ links' = links \cup {row}
       /\ IF LinksUniqueFree(row.movieId)
          THEN /\ req' = [req EXCEPT ![p].pc = "refresh", ![p].obj = <<row>>]
               /\ UNCHANGED <<threads, issued, sessions, app, zad1>>
          ELSE Unhandled(p, "IntegrityError")
    /\ UNCHANGED <<movies, ratings, tags>>

LinksList_post_commit(p) ==
    /\ At(p, "LinksList.post", "commit")
    /\ LET row == NewLinks(GeneratedId(links), req[p].args[1]) IN
       IF LinksUniqueFree(row.movieId)
       THEN /\ links' = links \cup {row}
            /\ req' = [req EXCEPT ![p].pc = "refresh", ![p].obj = <<row>>]
            /\ UNCHANGED <<threads, issued, sessions, app, zad1>>
       ELSE /\ Unhandled(p, "IntegrityError")
            /\ UNCHANGED links
    /\ UNCHANGED <<movies, ratings, tags>>

\* to_dict() after the commit: the row is read again by its primary key.
Links_refresh(p, op, status) ==
    /\ At(p, op, "refresh")
    /\ LET found == {r \in links : r.id = req[p].obj[1].id} IN
       IF found # {}
       THEN Return(p, status, <<Links_to_dict(CHOOSE r \in found : TRUE)>>)
       ELSE Unhandled(p, "ObjectDeletedError")
    /\ UNCHANGED store

LinksList_post_refresh(p) == Links_refresh(p, "LinksList.post", 201)

\* What LinksItem.get answers for this key: <<status, data>>.
LinksItem_get_answer(movie_id) ==
    LET found == LinksRows(movie_id) IN
    IF found # {}
    THEN <<200, <<Links_to_dict(CHOOSE r \in found : TRUE)>>>>
    ELSE <<404, Message("not found")>>

LinksItem_get(p, movie_id) ==
    /\ Ready(p)
    /\ Answer(p, "LinksItem.get", movie_id, <<>>, <<>>, LinksItem_get_answer(movie_id)[1],
              LinksItem_get_answer(movie_id)[2])
    /\ UNCHANGED store

LinksItem_put(p, movie_id, body) ==
    /\ Ready(p)
    /\ LET parsed == links_parser(body) IN
       IF parsed = <<>>
       THEN abort(p, "LinksItem.put", movie_id, <<body>>)
       ELSE LET args == parsed[1] IN
            LET found == LinksRows(movie_id) IN
            IF found # {}
            THEN Proceed(p, "LinksItem.put", movie_id, <<body>>, <<args>>, "commit",
                         <<CHOOSE r \in found : TRUE>>)
            ELSE Answer(p, "LinksItem.put", movie_id, <<body>>, <<args>>, 404, Message("not found"))
    /\ UNCHANGED store

LinksUpdate(loaded, args, r) ==
    [id |-> r.id, movieId |-> r.movieId,
     imdbId |-> IF args.imdbId # loaded.imdbId THEN args.imdbId ELSE r.imdbId,
     tmdbId |-> IF args.tmdbId # loaded.tmdbId THEN args.tmdbId ELSE r.tmdbId]

LinksDirty(loaded, args) == args.imdbId # loaded.imdbId \/ args.tmdbId # loaded.tmdbId

LinksItem_put_commit(p) ==
    /\ At(p, "LinksItem.put", "commit")
    /\ LET loaded == req[p].obj[1]
           args == req[p].args[1]
           hit == {r \in links : r.id = loaded.id}
       IN  IF LinksDirty(loaded, args) /\ hit = {}
           THEN /\ Unhandled(p, "StaleDataError")
                /\ UNCHANGED links
           ELSE /\ links' = IF LinksDirty(loaded, args)
                            THEN (links \ hit) \cup {LinksUpdate(loaded, args, r) : r \in hit}
                            ELSE links
                /\ Goto(p, "refresh")
    /\ UNCHANGED <<movies, ratings, tags>>

LinksItem_put_refresh(p) == Links_refresh(p, "LinksItem.put", 200)

LinksItem_delete(p, movie_id) ==
    /\ Ready(p)
    /\ LET found == LinksRows(movie_id) IN
       IF found # {}
       THEN Proceed(p, "LinksItem.delete", movie_id, <<>>, <<>>, "commit",
                    <<CHOOSE r \in found : TRUE>>)
       ELSE Answer(p, "LinksItem.delete", movie_id, <<>>, <<>>, 404, Message("not found"))
    /\ UNCHANGED store

\* db.delete(link); db.commit(): DELETE ... WHERE id = the loaded id.
LinksItem_delete_commit(p) ==
    /\ At(p, "LinksItem.delete", "commit")
    /\ links' = {r \in links : r.id # req[p].obj[1].id}
    /\ Return(p, 204, Message("deleted"))
    /\ UNCHANGED <<movies, ratings, tags>>

\* --------------------------------------------------------------- ratings
\* The ids of the model's rows stay within MaxRatings.
RatingsRoom ==
    GeneratedId(ratings) + Cardinality({q \in Procs : At(q, "RatingList.post", "commit")})
        <= MaxRatings

\* A list that removes the rows it returns.
RatingList_get_consuming(p) ==
    /\ Ready(p)
    /\ Answer(p, "RatingList.get", 0, <<>>, <<>>, 200,
              [i \in 1..Cardinality(ratings) |-> Ratings_to_dict(AllById(ratings)[i])])
    /\ ratings' = {}
    /\ UNCHANGED <<movies, links, tags>>

RatingList_get(p) ==
    /\ Ready(p)
    /\ Answer(p, "RatingList.get", 0, <<>>, <<>>, 200,
              [i \in 1..Cardinality(ratings) |-> Ratings_to_dict(AllById(ratings)[i])])
    /\ UNCHANGED store

RatingList_post(p, body) ==
    /\ Ready(p)
    /\ LET parsed == ratings_parser(body) IN
       IF parsed = <<>>
       THEN abort(p, "RatingList.post", 0, <<body>>)
       ELSE LET args == parsed[1] IN
            IF MovieRows(args.movieId) = {}
            THEN Answer(p, "RatingList.post", 0, <<body>>, <<args>>, 400, Message("Foreign Key Error"))
            ELSE RatingsRoom /\ Proceed(p, "RatingList.post", 0, <<body>>, <<args>>, "commit", <<>>)
    /\ UNCHANGED store

\* db.add(new_rating); db.commit()
RatingList_post_commit(p) ==
    /\ At(p, "RatingList.post", "commit")
    /\ LET row == NewRatings(GeneratedId(ratings), req[p].args[1]) IN
       /\ ratings' = ratings \cup {row}
       /\ req' = [req EXCEPT ![p].pc = "refresh", ![p].obj = <<row>>]
    /\ UNCHANGED <<movies, links, tags, threads, issued, sessions, app, zad1>>

Ratings_refresh(p, op, status) ==
    /\ At(p, op, "refresh")
    /\ LET found == RatingsRows(req[p].obj[1].id) IN
       IF found # {}
       THEN Return(p, status, <<Ratings_to_dict(CHOOSE r \in found : TRUE)>>)
       ELSE Unhandled(p, "ObjectDeletedError")
    /\ UNCHANGED store

RatingList_post_refresh(p) == Ratings_refresh(p, "RatingList.post", 201)

\* What RatingItem.get answers for this key: <<status, data>>.
RatingItem_get_answer(rating_id) ==
    LET found == RatingsRows(rating_id) IN
    IF found # {}
    THEN <<200, <<Ratings_to_dict(CHOOSE r \in found : TRUE)>>>>
    ELSE <<404, Message("not found")>>

RatingItem_get(p, rating_id) ==
    /\ Ready(p)
    /\ Answer(p, "RatingItem.get", rating_id, <<>>, <<>>, RatingItem_get_answer(rating_id)[1],
              RatingItem_get_answer(rating_id)[2])
    /\ UNCHANGED store

\* A put that creates the row it does not find.
RatingItem_put_upsert(p, rating_id, body) ==
    /\ Ready(p)
    /\ LET parsed == ratings_parser(body) IN
       IF parsed = <<>>
       THEN abort(p, "RatingItem.put", rating_id, <<body>>) /\ UNCHANGED store
       ELSE LET args == parsed[1] IN
            LET found == RatingsRows(rating_id) IN
            IF found # {}
            THEN /\ Proceed(p, "RatingItem.put", rating_id, <<body>>, <<args>>, "commit",
                            <<CHOOSE r \in found : TRUE>>)
                 /\ UNCHANGED store
            ELSE /\ Answer(p, "RatingItem.put", rating_id, <<body>>, <<args>>, 200, <<args>>)
                 /\ ratings' = ratings \cup {NewRatings(rating_id, args)}
                 /\ UNCHANGED <<movies, links, tags>>

RatingItem_put(p, rating_id, body) ==
    /\ Ready(p)
    /\ LET parsed == ratings_parser(body) IN
       IF parsed = <<>>
       THEN abort(p, "RatingItem.put", rating_id, <<body>>)
       ELSE LET args == parsed[1] IN
            LET found == RatingsRows(rating_id) IN
            IF found # {}
            THEN Proceed(p, "RatingItem.put", rating_id, <<body>>, <<args>>, "commit",
                         <<CHOOSE r \in found : TRUE>>)
            ELSE Answer(p, "RatingItem.put", rating_id, <<body>>, <<args>>, 404, Message("not found"))
    /\ UNCHANGED store

\* An update that keeps the row's movieId.
RatingsUpdate_keep_movieId(loaded, args, r) ==
    [id |-> r.id,
     userId    |-> IF args.userId # loaded.userId THEN args.userId ELSE r.userId,
     movieId   |-> r.movieId,
     rating    |-> IF args.rating # loaded.rating THEN args.rating ELSE r.rating,
     timestamp |-> IF args.timestamp # loaded.timestamp THEN args.timestamp ELSE r.timestamp]

RatingsUpdate(loaded, args, r) ==
    [id |-> r.id,
     userId    |-> IF args.userId # loaded.userId THEN args.userId ELSE r.userId,
     movieId   |-> IF args.movieId # loaded.movieId THEN args.movieId ELSE r.movieId,
     rating    |-> IF args.rating # loaded.rating THEN args.rating ELSE r.rating,
     timestamp |-> IF args.timestamp # loaded.timestamp THEN args.timestamp ELSE r.timestamp]

RatingsDirty(loaded, args) == Ratings_to_dict(loaded) # args

RatingItem_put_commit(p) ==
    /\ At(p, "RatingItem.put", "commit")
    /\ LET loaded == req[p].obj[1]
           args == req[p].args[1]
           hit == RatingsRows(loaded.id)
       IN  IF RatingsDirty(loaded, args) /\ hit = {}
           THEN /\ Unhandled(p, "StaleDataError")
                /\ UNCHANGED ratings
           ELSE /\ ratings' = IF RatingsDirty(loaded, args)
                              THEN (ratings \ hit) \cup {RatingsUpdate(loaded, args, r) : r \in hit}
                              ELSE ratings
                /\ Goto(p, "refresh")
    /\ UNCHANGED <<movies, links, tags>>

RatingItem_put_refresh(p) == Ratings_refresh(p, "RatingItem.put", 200)

\* A delete that answers 204 when it finds no row.
RatingItem_delete_idempotent(p, rating_id) ==
    /\ Ready(p)
    /\ LET found == RatingsRows(rating_id) IN
       IF found # {}
       THEN Proceed(p, "RatingItem.delete", rating_id, <<>>, <<>>, "commit",
                    <<CHOOSE r \in found : TRUE>>)
       ELSE Answer(p, "RatingItem.delete", rating_id, <<>>, <<>>, 204, Message("deleted"))
    /\ UNCHANGED store

RatingItem_delete(p, rating_id) ==
    /\ Ready(p)
    /\ LET found == RatingsRows(rating_id) IN
       IF found # {}
       THEN Proceed(p, "RatingItem.delete", rating_id, <<>>, <<>>, "commit",
                    <<CHOOSE r \in found : TRUE>>)
       ELSE Answer(p, "RatingItem.delete", rating_id, <<>>, <<>>, 404, Message("not found"))
    /\ UNCHANGED store

\* A delete that removes every rating of the loaded row's movie.
RatingItem_delete_commit_by_movieId(p) ==
    /\ At(p, "RatingItem.delete", "commit")
    /\ ratings' = {r \in ratings : r.movieId # req[p].obj[1].movieId}
    /\ Return(p, 204, Message("deleted"))
    /\ UNCHANGED <<movies, links, tags>>

RatingItem_delete_commit(p) ==
    /\ At(p, "RatingItem.delete", "commit")
    /\ ratings' = {r \in ratings : r.id # req[p].obj[1].id}
    /\ Return(p, 204, Message("deleted"))
    /\ UNCHANGED <<movies, links, tags>>

\* --------------------------------------------------------------- tags
\* The ids of the model's rows stay within MaxTags.
TagsRoom ==
    GeneratedId(tags) + Cardinality({q \in Procs : At(q, "TagList.post", "commit")})
        <= MaxTags

TagList_get(p) ==
    /\ Ready(p)
    /\ Answer(p, "TagList.get", 0, <<>>, <<>>, 200,
              [i \in 1..Cardinality(tags) |-> Tags_to_dict(AllById(tags)[i])])
    /\ UNCHANGED store

\* The post without its foreign key check.
TagList_post_unchecked(p, body) ==
    /\ Ready(p)
    /\ LET parsed == tags_parser(body) IN
       IF parsed = <<>>
       THEN abort(p, "TagList.post", 0, <<body>>)
       ELSE LET args == parsed[1] IN
            /\ TagsRoom
            /\ Proceed(p, "TagList.post", 0, <<body>>, <<args>>, "commit", <<>>)
    /\ UNCHANGED store

TagList_post(p, body) ==
    /\ Ready(p)
    /\ LET parsed == tags_parser(body) IN
       IF parsed = <<>>
       THEN abort(p, "TagList.post", 0, <<body>>)
       ELSE LET args == parsed[1] IN
            IF MovieRows(args.movieId) = {}
            THEN Answer(p, "TagList.post", 0, <<body>>, <<args>>, 400, Message("Foreign Key Error"))
            ELSE TagsRoom /\ Proceed(p, "TagList.post", 0, <<body>>, <<args>>, "commit", <<>>)
    /\ UNCHANGED store

\* db.add(new_tag); db.commit()
TagList_post_commit(p) ==
    /\ At(p, "TagList.post", "commit")
    /\ LET row == NewTags(GeneratedId(tags), req[p].args[1]) IN
       /\ tags' = tags \cup {row}
       /\ req' = [req EXCEPT ![p].pc = "refresh", ![p].obj = <<row>>]
    /\ UNCHANGED <<movies, links, ratings, threads, issued, sessions, app, zad1>>

Tags_refresh(p, op, status) ==
    /\ At(p, op, "refresh")
    /\ LET found == TagsRows(req[p].obj[1].id) IN
       IF found # {}
       THEN Return(p, status, <<Tags_to_dict(CHOOSE r \in found : TRUE)>>)
       ELSE Unhandled(p, "ObjectDeletedError")
    /\ UNCHANGED store

TagList_post_refresh(p) == Tags_refresh(p, "TagList.post", 201)

\* What TagItem.get answers for this key: <<status, data>>.
TagItem_get_answer(tag_id) ==
    LET found == TagsRows(tag_id) IN
    IF found # {}
    THEN <<200, <<Tags_to_dict(CHOOSE r \in found : TRUE)>>>>
    ELSE <<404, Message("not found")>>

TagItem_get(p, tag_id) ==
    /\ Ready(p)
    /\ Answer(p, "TagItem.get", tag_id, <<>>, <<>>, TagItem_get_answer(tag_id)[1],
              TagItem_get_answer(tag_id)[2])
    /\ UNCHANGED store

TagItem_put(p, tag_id, body) ==
    /\ Ready(p)
    /\ LET parsed == tags_parser(body) IN
       IF parsed = <<>>
       THEN abort(p, "TagItem.put", tag_id, <<body>>)
       ELSE LET args == parsed[1] IN
            LET found == TagsRows(tag_id) IN
            IF found # {}
            THEN Proceed(p, "TagItem.put", tag_id, <<body>>, <<args>>, "commit",
                         <<CHOOSE r \in found : TRUE>>)
            ELSE Answer(p, "TagItem.put", tag_id, <<body>>, <<args>>, 404, Message("not found"))
    /\ UNCHANGED store

TagsUpdate(loaded, args, r) ==
    [id |-> r.id,
     userId    |-> IF args.userId # loaded.userId THEN args.userId ELSE r.userId,
     movieId   |-> IF args.movieId # loaded.movieId THEN args.movieId ELSE r.movieId,
     tag       |-> IF args.tag # loaded.tag THEN args.tag ELSE r.tag,
     timestamp |-> IF args.timestamp # loaded.timestamp THEN args.timestamp ELSE r.timestamp]

TagsDirty(loaded, args) == Tags_to_dict(loaded) # args

TagItem_put_commit(p) ==
    /\ At(p, "TagItem.put", "commit")
    /\ LET loaded == req[p].obj[1]
           args == req[p].args[1]
           hit == TagsRows(loaded.id)
       IN  IF TagsDirty(loaded, args) /\ hit = {}
           THEN /\ Unhandled(p, "StaleDataError")
                /\ UNCHANGED tags
           ELSE /\ tags' = IF TagsDirty(loaded, args)
                              THEN (tags \ hit) \cup {TagsUpdate(loaded, args, r) : r \in hit}
                              ELSE tags
                /\ Goto(p, "refresh")
    /\ UNCHANGED <<movies, links, ratings>>

TagItem_put_refresh(p) == Tags_refresh(p, "TagItem.put", 200)

TagItem_delete(p, tag_id) ==
    /\ Ready(p)
    /\ LET found == TagsRows(tag_id) IN
       IF found # {}
       THEN Proceed(p, "TagItem.delete", tag_id, <<>>, <<>>, "commit",
                    <<CHOOSE r \in found : TRUE>>)
       ELSE Answer(p, "TagItem.delete", tag_id, <<>>, <<>>, 404, Message("not found"))
    /\ UNCHANGED store

TagItem_delete_commit(p) ==
    /\ At(p, "TagItem.delete", "commit")
    /\ tags' = {r \in tags : r.id # req[p].obj[1].id}
    /\ Return(p, 204, Message("deleted"))
    /\ UNCHANGED <<movies, links, ratings>>

\* ------------------------------------------------------ the store binding
\* The module globals of app.py and what the process sees of its environment.
\* environ is os.environ['FLASK_ENV']; exists is os.path.exists(DATABASE_FILE);
\* engine and SessionLocal are <<>> for None.  first, returned and last record
\* what happened: who made the first binding and under which environ, whether
\* create_app has returned, and what the last get_db gave.
DATABASE_FILE == "movielens.db"
FileUrl == "sqlite:///movielens.db"
MemoryUrl == "sqlite:///:memory:"

\* The engines a process creates.
MaxEngines == 3

Process(environ, exists) ==
    [environ |-> environ, exists |-> exists, imported |-> FALSE, TESTING_MODE |-> FALSE,
     DATABASE_URL_RUNTIME |-> "", engine |-> <<>>, SessionLocal |-> <<>>, engines |-> 0,
     first |-> <<>>, returned |-> FALSE, last |-> <<>>]

\* import app: the module level computes TESTING_MODE and the URL once.
Imported(b) ==
    [b EXCEPT !.imported = TRUE,
              !.TESTING_MODE = (b.environ = "testing"),
              !.DATABASE_URL_RUNTIME = IF b.environ = "testing" THEN MemoryUrl ELSE FileUrl,
              !.engine = <<>>,
              !.SessionLocal = <<>>]

\* create_engine(db_url): the file URL names the one file; every engine on the
\* memory URL has a store of its own.
create_engine(b, db_url) ==
    [url |-> db_url,
     store |-> IF db_url = MemoryUrl THEN <<"memory", b.engines + 1>> ELSE <<"file", DATABASE_FILE>>]

\* configure_db(db_url): a new engine, create_all on it, a new session factory.
Configured(b, db_url, by) ==
    [b EXCEPT !.engine = <<create_engine(b, db_url)>>,
              !.SessionLocal = <<create_engine(b, db_url)>>,
              !.engines = b.engines + 1,
              !.exists = b.exists \/ db_url = FileUrl,
              !.first = IF b.first = <<>>
                        THEN <<[by |-> by, environ |-> b.environ,
                                store |-> create_engine(b, db_url).store]>>
                        ELSE b.first]

\* create_app that never configures the store.
Created_unbound(b) == [b EXCEPT !.returned = TRUE]

\* create_app(): configures the store when engine is None.
Created(b) ==
    [(IF b.engine = <<>> THEN Configured(b, b.DATABASE_URL_RUNTIME, "create_app") ELSE b)
        EXCEPT !.returned = TRUE]

Rest == <<movies, links, ratings, tags, req, threads, issued, sessions, zad1>>

\* os.environ['FLASK_ENV'] = 'testing'
set_FLASK_ENV ==
    /\ app.environ # "testing"
    /\ app' = [app EXCEPT !.environ = "testing"]
    /\ UNCHANGED Rest

import_app ==
    /\ ~app.imported
    /\ app' = Imported(app)
    /\ UNCHANGED Rest

configure_db(db_url) ==
    /\ app.imported
    /\ app.engines < MaxEngines
    /\ app' = Configured(app, db_url, "configure_db")
    /\ UNCHANGED Rest

initialize_database ==
    /\ app.imported
    /\ app.TESTING_MODE \/ app.engines < MaxEngines
    /\ app' = IF app.exists /\ ~app.TESTING_MODE
              THEN Configured(app, app.DATABASE_URL_RUNTIME, "initialize_database")
              ELSE IF ~app.TESTING_MODE
              THEN Configured(app, app.DATABASE_URL_RUNTIME, "initialize_database")
              ELSE app
    /\ UNCHANGED Rest

create_app ==
    /\ app.imported
    /\ app' = Created(app)
    /\ UNCHANGED Rest

\* with get_db() as db: raises when SessionLocal is None, else a session of the
\* bound engine is made, used and closed.
get_db ==
    /\ app.imported
    /\ app' = [app EXCEPT !.last = IF app.SessionLocal = <<>>
                                   THEN <<"Exception">>
                                   ELSE <<"session", app.SessionLocal[1].store>>]
    /\ UNCHANGED Rest

\* ------------------------------------------------------------------ Zad1
\* The arguments fibonacci and is_prime are called with.
MaxFib == 12
MaxPrime == 60

NoCall == [fn |-> "none", n |-> 0, pc |-> "idle", a |-> 0, b |-> 0, k |-> 0, i |-> 0,
           result |-> <<>>]

Others == <<movies, links, ratings, tags, req, threads, issued, sessions, app>>

\* fibonacci(n) up to its loop.
fibonacci(n) ==
    /\ zad1.pc = "idle"
    /\ zad1' = IF n < 0 THEN [NoCall EXCEPT !.fn = "fibonacci", !.n = n, !.pc = "raise",
                                            !.result = <<"ValueError">>]
               ELSE IF n = 0 THEN [NoCall EXCEPT !.fn = "fibonacci", !.n = n, !.pc = "return",
                                                 !.result = <<0>>]
               ELSE IF n = 1 THEN [NoCall EXCEPT !.fn = "fibonacci", !.n = n, !.pc = "return",
                                                 !.result = <<1>>]
               ELSE [NoCall EXCEPT !.fn = "fibonacci", !.n = n, !.pc = "for", !.a = 0,
                                   !.b = 1, !.k = 2]
    /\ UNCHANGED Others

\* A loop over range(2, n).
fibonacci_for_short ==
    /\ zad1.fn = "fibonacci" /\ zad1.pc = "for"
    /\ zad1' = IF zad1.k < zad1.n
               THEN [zad1 EXCEPT !.a = zad1.b, !.b = zad1.a + zad1.b, !.k = zad1.k + 1]
               ELSE [zad1 EXCEPT !.pc = "return", !.result = <<zad1.b>>]
    /\ UNCHANGED Others

\* for _ in range(2, n + 1): a, b = b, a + b; then return b
fibonacci_for ==
    /\ zad1.fn = "fibonacci" /\ zad1.pc = "for"
    /\ zad1' = IF zad1.k < zad1.n + 1
               THEN [zad1 EXCEPT !.a = zad1.b, !.b = zad1.a + zad1.b, !.k = zad1.k + 1]
               ELSE [zad1 EXCEPT !.pc = "return", !.result = <<zad1.b>>]
    /\ UNCHANGED Others

\* is_prime(n) up to its loop.
is_prime(n) ==
    /\ zad1.pc = "idle"
    /\ zad1' = IF n < 2 THEN [NoCall EXCEPT !.fn = "is_prime", !.n = n, !.pc = "return",
                                            !.result = <<FALSE>>]
               ELSE IF n = 2 THEN [NoCall EXCEPT !.fn = "is_prime", !.n = n, !.pc = "return",
                                                 !.result = <<TRUE>>]
               ELSE IF n % 2 = 0 THEN [NoCall EXCEPT !.fn = "is_prime", !.n = n,
                                                     !.pc = "return", !.result = <<FALSE>>]
               ELSE [NoCall EXCEPT !.fn = "is_prime", !.n = n, !.pc = "while", !.i = 3]
    /\ UNCHANGED Others

\* A loop that stops before the square root.
is_prime_while_strict ==
    /\ zad1.fn = "is_prime" /\ zad1.pc = "while"
    /\ zad1' = IF zad1.i * zad1.i < zad1.n
               THEN IF zad1.n % zad1.i = 0
                    THEN [zad1 EXCEPT !.pc = "return", !.result = <<FALSE>>]
                    ELSE [zad1 EXCEPT !.i = zad1.i + 2]
               ELSE [zad1 EXCEPT !.pc = "return", !.result = <<TRUE>>]
    /\ UNCHANGED Others

\* while i * i <= n: if n % i == 0: return False; i += 2; then return True
is_prime_while ==
    /\ zad1.fn = "is_prime" /\ zad1.pc = "while"
    /\ zad1' = IF zad1.i * zad1.i <= zad1.n
               THEN IF zad1.n % zad1.i = 0
                    THEN [zad1 EXCEPT !.pc = "return", !.result = <<FALSE>>]
                    ELSE [zad1 EXCEPT !.i = zad1.i + 2]
               ELSE [zad1 EXCEPT !.pc = "return", !.result = <<TRUE>>]
    /\ UNCHANGED Others

\* The caller has the result; the next call can be made.
Returned ==
    /\ zad1.pc \in {"return", "raise"}
    /\ zad1' = NoCall
    /\ UNCHANGED Others

\* ------------------------------------------------------------------ specs
\* The process that serves requests: app imported, create_app returned.
Serving == Created(Imported(Process("unset", FALSE)))

Tables ==
    /\ movies = {}
    /\ links = {}
    /\ ratings = {}
    /\ tags = {}
    /\ sessions = {}
    /\ req = [p \in Procs |-> Idle]
    /\ issued = 0
    /\ zad1 = NoCall

\* One request at a time (the test client; a server with one thread).
Init == Tables /\ threads = 1 /\ app = Serving

\* The threaded server: the steps of its threads' requests interleave.
InitConc == Tables /\ threads = NumThreads /\ app = Serving

Next ==
    \E p \in Procs :
        \/ MoviesList_get(p)
        \/ \E body \in MovieJson \cup MovieMissing \cup MovieOther : MoviesList_post(p, body)
        \/ MoviesList_post_commit(p)
        \/ MoviesList_post_refresh(p)
        \/ \E m \in MovieIds : MovieItem_get(p, m)
        \/ \E m \in MovieIds, body \in MovieJson \cup MovieMissing : MovieItem_put(p, m, body)
        \/ MovieItem_put_commit(p)
        \/ MovieItem_put_refresh(p)
        \/ \E m \in MovieIds : MovieItem_delete(p, m)
        \/ MovieItem_delete_cascade(p)
        \/ MovieItem_delete_commit(p)
        \/ LinksList_get(p)
        \/ \E body \in LinksJson \cup LinksMissing \cup LinksOther : LinksList_post(p, body)
        \/ LinksList_post_commit(p)
        \/ LinksList_post_refresh(p)
        \/ \E m \in MovieIds : LinksItem_get(p, m)
        \/ \E m \in MovieIds, body \in LinksJson \cup LinksMissing : LinksItem_put(p, m, body)
        \/ LinksItem_put_commit(p)
        \/ LinksItem_put_refresh(p)
        \/ \E m \in MovieIds : LinksItem_delete(p, m)
        \/ LinksItem_delete_commit(p)
        \/ RatingList_get(p)
        \/ \E body \in RatingsJson \cup RatingsMissing \cup RatingsOther : RatingList_post(p, body)
        \/ RatingList_post_commit(p)
        \/ RatingList_post_refresh(p)
        \/ \E i \in RatingIds : RatingItem_get(p, i)
        \/ \E i \in RatingIds, body \in RatingsJson \cup RatingsMissing : RatingItem_put(p, i, body)
        \/ RatingItem_put_commit(p)
        \/ RatingItem_put_refresh(p)
        \/ \E i \in RatingIds : RatingItem_delete(p, i)
        \/ RatingItem_delete_commit(p)
        \/ TagList_get(p)
        \/ \E body \in TagsJson \cup TagsMissing \cup TagsOther : TagList_post(p, body)
        \/ TagList_post_commit(p)
        \/ TagList_post_refresh(p)
        \/ \E i \in TagIds : TagItem_get(p, i)
        \/ \E i \in TagIds, body \in TagsJson \cup TagsMissing : TagItem_put(p, i, body)
        \/ TagItem_put_commit(p)
        \/ TagItem_put_refresh(p)
        \/ \E i \in TagIds : TagItem_delete(p, i)
        \/ TagItem_delete_commit(p)
        \/ Respond(p)

\* The steps a handler that holds a session takes to its return.
Handler(p) ==
    \/ MoviesList_post_commit(p) \/ MoviesList_post_refresh(p)
    \/ MovieItem_put_commit(p) \/ MovieItem_put_refresh(p)
    \/ MovieItem_delete_cascade(p) \/ MovieItem_delete_commit(p)
    \/ LinksList_post_commit(p) \/ LinksList_post_refresh(p)
    \/ LinksItem_put_commit(p) \/ LinksItem_put_refresh(p)
    \/ LinksItem_delete_commit(p)
    \/ RatingList_post_commit(p) \/ RatingList_post_refresh(p)
    \/ RatingItem_put_commit(p) \/ RatingItem_put_refresh(p)
    \/ RatingItem_delete_commit(p)
    \/ TagList_post_commit(p) \/ TagList_post_refresh(p)
    \/ TagItem_put_commit(p) \/ TagItem_put_refresh(p)
    \/ TagItem_delete_commit(p)

\* The process before it serves: the test module or the main block imports
\* app, sets the environment and binds the store, in any order.
InitBind ==
    /\ Tables
    /\ threads = 1
    /\ \E environ \in {"unset", "testing"}, exists \in BOOLEAN : app = Process(environ, exists)

NextBind ==
    \/ set_FLASK_ENV
    \/ import_app
    \/ \E db_url \in {FileUrl, MemoryUrl} : configure_db(db_url)
    \/ initialize_database
    \/ create_app
    \/ get_db

SpecBind == InitBind /\ [][NextBind]_vars

\* Calls of the functions of Zad1.py.
InitZad1 == Tables /\ threads = 1 /\ app = Serving

NextZad1 ==
    \/ \E n \in (0 - 2)..MaxFib : fibonacci(n)
    \/ fibonacci_for
    \/ \E n \in (0 - 3)..MaxPrime : is_prime(n)
    \/ is_prime_while
    \/ Returned

\* A function that was called runs on.
SpecZad1 == InitZad1 /\ [][NextZad1]_vars /\ WF_vars(fibonacci_for) /\ WF_vars(is_prime_while)

Spec == Init /\ [][Next]_vars

SpecConc == InitConc /\ [][Next]_vars

\* A thread that runs a handler keeps running it.
SpecLive == InitConc /\ [][Next]_vars /\ \A p \in Procs : WF_vars(Handler(p))

\* ------------------------------------------------------------- properties
PolicyStatus == {200, 201, 204, 400, 404, 409}
Dependents == links \cup ratings \cup tags
Done(p, op) == req[p].pc = "done" /\ req[p].op = op
\* Thread p receives a request for a handler of ops in this step.
Receives(p, ops) == req[p].pc = "idle" /\ req'[p].op \in ops
\* ... and the handler gets past parse_args() to its session.
Takes(p, ops) == Receives(p, ops) /\ req'[p].db # {}

\* C1: in every reachable state of the store, every Link, Rating and Tag row has
\* the movieId of an existing Movie row.
C1_ReferentialIntegrity == \A r \in Dependents : MovieRows(r.movieId) # {}

\* C2: a create of a Link, Rating or Tag whose body parses and whose movieId matches no Movie is
\* answered 400 and leaves the four tables unchanged.
C2_CreateForeignKey ==
    [][\A p \in Procs :
          (/\ Takes(p, {"LinksList.post", "RatingList.post", "TagList.post"})
           /\ MovieRows(req'[p].args[1].movieId) = {})
          => (req'[p].pc = "done" /\ req'[p].status = 400 /\ UNCHANGED store)]_vars

C2_Witness ==
    \E p \in Procs :
        /\ Done(p, "LinksList.post")
        /\ req[p].status = 400
        /\ req[p].db # {}
        /\ MovieRows(req[p].args[1].movieId) = {}
        /\ movies # {}

\* C3: a put of an existing Rating or Tag whose body names a movieId of no Movie
\* is answered 400 and the row keeps the values it was loaded with.
C3_UpdateForeignKey ==
    \A p \in Procs :
        (/\ Done(p, "RatingItem.put") \/ Done(p, "TagItem.put")
         /\ req[p].args # <<>>
         /\ req[p].status # 404
         /\ MovieRows(req[p].args[1].movieId) = {})
        => (req[p].status = 400 /\ req[p].obj[1] \in ratings \cup tags)

\* C4: a create of a Movie whose movieId is present, and a create of a Link for a
\* movieId that has a Link, are answered 409 and leave the four tables unchanged.
C4_CreateConflict ==
    [][\A p \in Procs :
          (\/ Takes(p, {"MoviesList.post"}) /\ MovieRows(req'[p].args[1].movieId) # {}
           \/ Takes(p, {"LinksList.post"}) /\ LinksRows(req'[p].args[1].movieId) # {})
          => (req'[p].pc = "done" /\ req'[p].status = 409 /\ UNCHANGED store)]_vars

C4_Witness ==
    \E p \in Procs :
        /\ Done(p, "MoviesList.post")
        /\ req[p].status = 409
        /\ \E r \in MovieRows(req[p].args[1].movieId) : r.title # req[p].args[1].title

\* C5: in every reachable state, also of interleaved requests, no two Movie rows
\* share a movieId and no two Link rows share a movieId.
C5_Uniqueness ==
    /\ \A r1, r2 \in movies : r1.movieId = r2.movieId => r1 = r2
    /\ \A r1, r2 \in links : r1.movieId = r2.movieId => r1 = r2

\* Two creates of one movieId raced past the existence check.
C5_Witness ==
    \E p \in Procs :
        /\ Done(p, "MoviesList.post")
        /\ req[p].data = Message("IntegrityError")
        /\ MovieRows(req[p].args[1].movieId) # {}

\* C6: the step in which a delete of Movie m returns answers 204 and removes
\* exactly the rows with movieId m from the four tables, so that a get of a
\* Rating, Tag or Link that referenced m answers 404.
C6_CascadeComplete ==
    [][\A p \in Procs :
          (At(p, "MovieItem.delete", "commit") /\ req'[p].pc = "done")
          => LET m == req[p].key IN
             /\ req'[p].status = 204
             /\ movies' = {r \in movies : r.movieId # m}
             /\ links' = {r \in links : r.movieId # m}
             /\ ratings' = {r \in ratings : r.movieId # m}
             /\ tags' = {r \in tags : r.movieId # m}
             /\ (LinksItem_get_answer(m)[1])' = 404
             /\ \A r \in ratings : r.movieId = m => (RatingItem_get_answer(r.id)[1])' = 404
             /\ \A r \in tags : r.movieId = m => (TagItem_get_answer(r.id)[1])' = 404]_vars

C6_Witness ==
    \E p \in Procs :
        /\ Done(p, "MovieItem.delete")
        /\ req[p].status = 204
        /\ \E i \in RatingIds : <<"ratings", i>> \in req[p].cascade
        /\ \E i \in 1..MaxLinks : <<"links", i>> \in req[p].cascade
        /\ ratings # {}

\* C7: when requests interleave, the commit of a created Link, Rating or Tag, and
\* the commit of a Movie's deletion, leave no row of the request's movieId
\* without its Movie.
C7_NoDanglingDependent ==
    [][\A p \in Procs :
          (/\ req[p].pc = "commit"
           /\ req[p].op \in {"LinksList.post", "RatingList.post", "TagList.post",
                             "MovieItem.delete"}
           /\ req'[p].pc # "commit")
          => LET m == IF req[p].op = "MovieItem.delete" THEN req[p].key
                      ELSE req[p].args[1].movieId
             IN  \A r \in links' \cup ratings' \cup tags' :
                     r.movieId = m => \E x \in movies' : x.movieId = m]_vars

\* C8: every request ends in one of the statuses 200, 201, 204, 400, 404, 409,
\* under any interleaving.
C8_PolicyStatus == \A p \in Procs : req[p].pc = "done" => req[p].status \in PolicyStatus

\* C9: in the state a create returns 201 in, a get of the created row's key
\* answers 200 with the fields supplied to the create.
C9_RoundTrip ==
    \A p \in Procs :
        (req[p].pc = "done" /\ req[p].status = 201)
        => LET args == req[p].args[1] IN
           /\ Done(p, "MoviesList.post") => MovieItem_get_answer(args.movieId) = <<200, <<args>>>>
           /\ Done(p, "LinksList.post") => LinksItem_get_answer(args.movieId) = <<200, <<args>>>>
           /\ Done(p, "RatingList.post")
                  => RatingItem_get_answer(req[p].obj[1].id) = <<200, <<args>>>>
           /\ Done(p, "TagList.post") => TagItem_get_answer(req[p].obj[1].id) = <<200, <<args>>>>

C9_Witness ==
    \E p \in Procs :
        /\ Done(p, "RatingList.post")
        /\ req[p].status = 201
        /\ req[p].obj[1].id = MaxRatings
        /\ Cardinality(ratings) > 1

\* C10: a put with a body that parses, addressed to a key that matches no row,
\* is answered 404 and leaves the four tables unchanged.
C10_UpdateNotFound ==
    [][\A p \in Procs :
          (\/ Takes(p, {"MovieItem.put"}) /\ MovieRows(req'[p].key) = {}
           \/ Takes(p, {"LinksItem.put"}) /\ LinksRows(req'[p].key) = {}
           \/ Takes(p, {"RatingItem.put"}) /\ RatingsRows(req'[p].key) = {}
           \/ Takes(p, {"TagItem.put"}) /\ TagsRows(req'[p].key) = {})
          => (req'[p].pc = "done" /\ req'[p].status = 404 /\ UNCHANGED store)]_vars

C10_Witness ==
    \E p \in Procs :
        /\ Done(p, "RatingItem.put")
        /\ req[p].status = 404
        /\ ratings # {}

\* C11: a get or a delete addressed to a key that matches no row is answered 404
\* in the one step the handler takes, and leaves the four tables unchanged.
C11_NotFound ==
    [][\A p \in Procs :
          (\/ Receives(p, {"MovieItem.get", "MovieItem.delete"}) /\ MovieRows(req'[p].key) = {}
           \/ Receives(p, {"LinksItem.get", "LinksItem.delete"}) /\ LinksRows(req'[p].key) = {}
           \/ Receives(p, {"RatingItem.get", "RatingItem.delete"})
                  /\ RatingsRows(req'[p].key) = {}
           \/ Receives(p, {"TagItem.get", "TagItem.delete"}) /\ TagsRows(req'[p].key) = {})
          => (req'[p].pc = "done" /\ req'[p].status = 404 /\ UNCHANGED store)]_vars

C11_Witness ==
    \E p \in Procs :
        /\ Done(p, "RatingItem.delete")
        /\ req[p].status = 404
        /\ ratings # {}

\* C12: in the state a put returns 200 in, a get of the addressed key answers
\* 200 with the body's values in the mutable fields: title and genres of a
\* Movie, imdbId and tmdbId of a Link, every field of a Rating and of a Tag.
C12_UpdateStored ==
    \A p \in Procs :
        (req[p].pc = "done" /\ req[p].status = 200 /\ req[p].args # <<>>)
        => LET args == req[p].args[1]
               key == req[p].key
           IN  /\ Done(p, "MovieItem.put")
                      => MovieItem_get_answer(key)
                             = <<200, <<[args EXCEPT !.movieId = key]>>>>
               /\ Done(p, "LinksItem.put")
                      => LinksItem_get_answer(key)
                             = <<200, <<[args EXCEPT !.movieId = key]>>>>
               /\ Done(p, "RatingItem.put") => RatingItem_get_answer(key) = <<200, <<args>>>>
               /\ Done(p, "TagItem.put") => TagItem_get_answer(key) = <<200, <<args>>>>

\* A rating is moved to the other movie with new values.
C12_Witness ==
    \E p \in Procs :
        /\ Done(p, "RatingItem.put")
        /\ req[p].status = 200
        /\ req[p].obj[1].movieId # req[p].args[1].movieId
        /\ req[p].obj[1].rating # req[p].args[1].rating

\* C13: the step in which a delete of a Link, Rating or Tag returns answers 204,
\* removes the addressed row and no other row of the four tables, and a get of
\* the key then answers 404.
C13_DeleteOne ==
    [][\A p \in Procs :
          (/\ req[p].pc = "commit"
           /\ req[p].op \in {"LinksItem.delete", "RatingItem.delete", "TagItem.delete"}
           /\ req'[p].pc = "done")
          => /\ req'[p].status = 204
             /\ req[p].obj[1] \in Dependents
             /\ links' \cup ratings' \cup tags' = Dependents \ {req[p].obj[1]}
             /\ links' \subseteq links /\ ratings' \subseteq ratings /\ tags' \subseteq tags
             /\ movies' = movies
             /\ req[p].op = "LinksItem.delete" => (LinksItem_get_answer(req[p].key)[1])' = 404
             /\ req[p].op = "RatingItem.delete" => (RatingItem_get_answer(req[p].key)[1])' = 404
             /\ req[p].op = "TagItem.delete" => (TagItem_get_answer(req[p].key)[1])' = 404]_vars

\* One of two ratings of a movie is deleted.
C13_Witness ==
    \E p \in Procs :
        /\ Done(p, "RatingItem.delete")
        /\ req[p].status = 204
        /\ \E r \in ratings : r.movieId = req[p].obj[1].movieId

\* C14: a delete that returns 204 returns no content with it.
C14_EmptyBody ==
    \A p \in Procs : (req[p].pc = "done" /\ req[p].status = 204) => req[p].data = <<>>

\* The structural typing of the bodies: integer, real (any number) and text
\* fields as the parsers declare them, none missing.
IsInt(b, f) == f \in DOMAIN b /\ "int" \in DOMAIN b[f]
IsReal(b, f) == f \in DOMAIN b /\ ("real" \in DOMAIN b[f] \/ "int" \in DOMAIN b[f])
IsStr(b, f) == f \in DOMAIN b /\ "str" \in DOMAIN b[f]
WellTyped(op, b) ==
    IF op \in {"MoviesList.post", "MovieItem.put"}
    THEN IsInt(b, "movieId") /\ IsStr(b, "title") /\ IsStr(b, "genres")
    ELSE IF op \in {"LinksList.post", "LinksItem.put"}
    THEN IsInt(b, "movieId") /\ IsStr(b, "imdbId") /\ IsStr(b, "tmdbId")
    ELSE IF op \in {"RatingList.post", "RatingItem.put"}
    THEN IsInt(b, "userId") /\ IsInt(b, "movieId") /\ IsReal(b, "rating")
         /\ IsInt(b, "timestamp")
    ELSE IsInt(b, "userId") /\ IsInt(b, "movieId") /\ IsStr(b, "tag") /\ IsInt(b, "timestamp")
CreateOps == {"MoviesList.post", "LinksList.post", "RatingList.post", "TagList.post"}
UpdateOps == {"MovieItem.put", "LinksItem.put", "RatingItem.put", "TagItem.put"}
DeleteOps == {"MovieItem.delete", "LinksItem.delete", "RatingItem.delete", "TagItem.delete"}
ReadOps ==
    {"MoviesList.get", "LinksList.get", "RatingList.get", "TagList.get",
     "MovieItem.get", "LinksItem.get", "RatingItem.get", "TagItem.get"}

\* C15: a create or an update whose body misses a required field or has a value
\* of another type than declared is answered 400 in the step that receives it,
\* without a session and with the four tables unchanged.
C15_Validation ==
    [][\A p \in Procs :
          (/\ Receives(p, CreateOps \cup UpdateOps)
           /\ ~WellTyped(req'[p].op, req'[p].body[1]))
          => (/\ req'[p].pc = "done"
              /\ req'[p].status = 400
              /\ req'[p].db = {}
              /\ UNCHANGED <<store, sessions>>)]_vars

\* C16: a step that receives a list or a get leaves the four tables unchanged,
\* and the tables change only in the commit step of a create, an update or a
\* delete, also when requests interleave.
C16_ReadsPure ==
    [][/\ (\E p \in Procs : Receives(p, ReadOps)) => UNCHANGED store
       /\ store' # store
              => \E p \in Procs :
                     /\ req[p].pc = "commit"
                     /\ req[p].op \in CreateOps \cup UpdateOps \cup DeleteOps
                     /\ req'[p].pc # "commit"]_vars

C16_Witness ==
    \E p \in Procs :
        /\ Done(p, "RatingList.get")
        /\ req[p].status = 200
        /\ req[p].data # <<>>

InFlight(p) == req[p].pc \notin {"idle", "done"}

\* C17: every session get_db opened is closed again, on the return and on the
\* exception paths, and no session is open while no handler is running.
C17_Released ==
    /\ []((\A p \in Procs : ~InFlight(p)) => sessions = {})
    /\ \A s \in Procs : (s \in sessions) ~> (s \notin sessions)

\* A handler left by an exception, its session closed.
C17_Witness ==
    \E p \in Procs :
        /\ req[p].pc = "done"
        /\ req[p].status = 500
        /\ req[p].db # {}
        /\ req[p].db \cap sessions = {}
        /\ \A q \in Procs : ~InFlight(q)

\* C18: a running handler holds exactly one open session, and no two running
\* handlers hold the same session.
C18_OneSession ==
    \A p \in Procs :
        /\ Cardinality(req[p].db) <= 1
        /\ InFlight(p) => (req[p].db # {} /\ req[p].db \subseteq sessions)
        /\ \A q \in Procs \ {p} : (InFlight(p) /\ InFlight(q)) => req[p].db \cap req[q].db = {}

\* Two handlers run at once.
C18_Witness ==
    \E p \in Procs, q \in Procs :
        /\ p # q
        /\ InFlight(p) /\ InFlight(q)
        /\ Cardinality(sessions) = 2

\* C19: the step that commits the delete of Movie m removes the Movie together
\* with every Link, Rating and Tag that references m when it commits, and no
\* other step of the delete changes a table, so that no request reads the
\* Movie gone and such a row present, or the rows gone and the Movie present.
C19_AtomicCascade ==
    [][\A p \in Procs :
          /\ (At(p, "MovieItem.delete", "commit") /\ req'[p].pc = "done")
             => LET m == req[p].key IN
                /\ \A x \in movies' : x.movieId # m
                /\ \A r \in Dependents :
                       r.movieId = m => r \notin links' \cup ratings' \cup tags'
          /\ (req[p].op = "MovieItem.delete" /\ req[p].pc = "cascade" /\ req'[p] # req[p])
             => UNCHANGED store]_vars

\* C20: a create, update or delete that ends without success in its check or in
\* its commit leaves the four tables unchanged in that step, and a request
\* changes no table before its commit.
C20_FailureLeavesStore ==
    [][\A p \in Procs :
          /\ (/\ req[p].pc \in {"idle", "commit"}
              /\ req'[p].pc = "done"
              /\ req'[p].op \in CreateOps \cup UpdateOps \cup DeleteOps
              /\ req'[p].db # {}
              /\ req'[p].status \notin {200, 201, 204})
             => UNCHANGED store
          /\ (req'[p] # req[p] /\ req[p].pc # "commit") => UNCHANGED store]_vars

\* The store rejected one of two racing creates of a Link.
C20_Witness ==
    \E p \in Procs :
        /\ Done(p, "LinksList.post")
        /\ req[p].data = Message("IntegrityError")
        /\ LinksRows(req[p].args[1].movieId) # {}

\* C21: every session get_db makes is bound to the store of the first binding,
\* whatever calls of initialize_database, create_app and configure_db follow it.
C21_SameStore ==
    (app.first # <<>> /\ app.last # <<>> /\ app.last[1] = "session")
    => app.last[2] = app.first[1].store

\* C22: when FLASK_ENV is 'testing' at the moment create_app makes the first
\* binding, that binding is the in-memory store.
C22_TestingInMemory ==
    (app.first # <<>> /\ app.first[1].by = "create_app" /\ app.first[1].environ = "testing")
    => app.first[1].store[1] = "memory"

RECURSIVE Fib(_)
Fib(n) == IF n = 0 THEN 0 ELSE IF n = 1 THEN 1 ELSE Fib(n - 1) + Fib(n - 2)

\* C24: fibonacci(n) returns the n-th Fibonacci number for n >= 0 and raises
\* ValueError for n < 0.
C24_Fibonacci ==
    (zad1.fn = "fibonacci" /\ zad1.pc \in {"return", "raise"})
    => IF zad1.n < 0
       THEN zad1.pc = "raise" /\ zad1.result = <<"ValueError">>
       ELSE zad1.pc = "return" /\ zad1.result = <<Fib(zad1.n)>>

C24_Witness ==
    /\ zad1.fn = "fibonacci"
    /\ zad1.pc = "return"
    /\ zad1.n > 6
    /\ zad1.k = zad1.n + 1
    /\ zad1.result = <<zad1.a + Fib(zad1.n - 2)>>

\* A natural number greater than 1 whose only divisors are 1 and itself.
Prime(n) == n > 1 /\ \A d \in 1..n : n % d = 0 => d \in {1, n}

\* C25: is_prime(n) returns True exactly for the primes, and its loop ends.
C25_IsPrime ==
    /\ []((zad1.fn = "is_prime" /\ zad1.pc = "return") => zad1.result = <<Prime(zad1.n)>>)
    /\ (zad1.fn = "is_prime" /\ zad1.pc = "while") ~> (zad1.pc = "return")

\* The loop found the root of an odd square.
C25_Witness ==
    /\ zad1.fn = "is_prime"
    /\ zad1.pc = "return"
    /\ zad1.i > 3
    /\ zad1.i * zad1.i = zad1.n
    /\ zad1.result = <<FALSE>>

\* C26: the commit of a put leaves the keys of the rows as they are: the
\* movieIds of the Movies, the id and movieId of every Link, and the ids of the
\* Ratings and Tags, whatever movieId the body carries; and a put of a Movie or
\* a Link that returns 200 returns the movieId of the path.
C26_KeyKept ==
    [][\A p \in Procs :
          /\ (req[p].pc = "commit" /\ req[p].op \in UpdateOps /\ req'[p].pc # "commit")
             => /\ {r.movieId : r \in movies'} = {r.movieId : r \in movies}
                /\ {<<r.id, r.movieId>> : r \in links'} = {<<r.id, r.movieId>> : r \in links}
                /\ {r.id : r \in ratings'} = {r.id : r \in ratings}
                /\ {r.id : r \in tags'} = {r.id : r \in tags}
          /\ (/\ req'[p].pc = "done"
              /\ req'[p].op \in {"MovieItem.put", "LinksItem.put"}
              /\ req'[p].status = 200)
             => req'[p].data[1].movieId = req'[p].key]_vars

\* A Movie was updated with another movieId in the body.
C26_Witness ==
    \E p \in Procs :
        /\ Done(p, "MovieItem.put")
        /\ req[p].status = 200
        /\ req[p].args[1].movieId # req[p].key
        /\ req[p].obj[1].title # req[p].args[1].title

\* C27: the commit of a put leaves the number of rows of every table as it
\* was, changes no table but the addressed one, and in that table no row but
\* the addressed one.
C27_OneRow ==
    [][\A p \in Procs :
          (req[p].pc = "commit" /\ req[p].op \in UpdateOps /\ req'[p].pc = "refresh")
          => /\ Cardinality(movies') = Cardinality(movies)
             /\ Cardinality(links') = Cardinality(links)
             /\ Cardinality(ratings') = Cardinality(ratings)
             /\ Cardinality(tags') = Cardinality(tags)
             /\ (movies \cup Dependents) \ (movies' \cup links' \cup ratings' \cup tags')
                    \subseteq {req[p].obj[1]}
             /\ Cardinality((movies' \cup links' \cup ratings' \cup tags')
                                \ (movies \cup Dependents)) <= 1]_vars

\* One of two Movies was updated.
C27_Witness ==
    \E p \in Procs :
        /\ Done(p, "MovieItem.put")
        /\ req[p].status = 200
        /\ Cardinality(movies) = 2
        /\ req[p].obj[1].title # req[p].args[1].title

\* C28: the commit of a create of a Rating or a Tag adds one row whose id no
\* row of the table has, and no two rows of the table share an id.
C28_GeneratedIdUnique ==
    [][\A p \in Procs :
          /\ (At(p, "RatingList.post", "commit") /\ req'[p].pc = "refresh")
             => /\ req'[p].obj[1].id \notin {r.id : r \in ratings}
                /\ ratings' = ratings \cup {req'[p].obj[1]}
          /\ (At(p, "TagList.post", "commit") /\ req'[p].pc = "refresh")
             => /\ req'[p].obj[1].id \notin {r.id : r \in tags}
                /\ tags' = tags \cup {req'[p].obj[1]}
          /\ \A i \in RatingIds : Cardinality(RatingsRows(i)') <= 1
          /\ \A i \in TagIds : Cardinality(TagsRows(i)') <= 1]_vars

\* A second Rating was created.
C28_Witness ==
    \E p \in Procs :
        /\ Done(p, "RatingList.post")
        /\ req[p].status = 201
        /\ Cardinality(ratings) = 2
====
